---- MODULE Spec2Model ----
(***************************************************************************)
(* Model of slug: basic_logstream (a std::ostream over either std::clog's  *)
(* buffer or an owned std::filebuf) and basic_logger (start time, mutex,   *)
(* logstream, atomic minimum level), src/src/include/slug.hpp.             *)
(*                                                                         *)
(* Threads call the public operations of two loggers.  Every statement of  *)
(* an operation that another thread can observe is one step.  The standard *)
(* library is modelled by what it does: basic_ios::rdbuf(sb) calls clear(),*)
(* basic_ios::swap exchanges everything but rdbuf, an insertion into a     *)
(* stream whose state is not good writes nothing, an insertion into a      *)
(* closed filebuf fails and sets badbit, a filebuf buffers until sync.     *)
(***************************************************************************)
EXTENDS Integers, Sequences, FiniteSets, TLC

\* ---------------------------------------------------------------- bounds
MaxOps == 4          \* calls of the single caller of Spec
MaxGateOps == 3      \* calls of the single caller of SpecGate
MaxCalls == 2        \* calls of each thread of SpecLog and SpecSwap
NumThreads == 2      \* threads
MaxClock == 2        \* last reading of the steady clock

\* ------------------------------------------------------------- universe
Threads == 1 .. NumThreads
Loggers == {"a", "b"}
NoThread == 0

\* slug.hpp:26  enum class log_level { Trace, Info, Warn, Error, Fatal, None }
Trace == 0
Info == 1
Warn == 2
Error == 3
Fatal == 4
None == 5
log_level == Trace .. None
Severities == Trace .. Fatal      \* the five logging entry points

\* slug.hpp:36  default_lvl (debug build)
default_lvl == Info

\* file system: two paths that can be opened, one whose directory is missing
GoodPaths == {"A", "B"}
BadPaths == {"bad"}
Paths == GoodPaths \cup BadPaths
NoFile == "nofile"

VARIABLES
  now,            \* std::chrono::steady_clock, in milliseconds
  m_start_time,   \* [Loggers -> Nat]
  m_lstrm_mtx,    \* [Loggers -> Threads \cup {NoThread}]  owner of the mutex
  m_min_lvl_atm,  \* [Loggers -> log_level]
  m_lstrm,        \* [Loggers -> sink record]
  files,          \* [GoodPaths -> Seq(chunk)]  bytes that reached each file
  console,        \* Seq(chunk)                 bytes that reached std::clog
  sunk,           \* [Loggers -> Seq(chunk)]    history: insertions made on m_lstrm,
                  \*                            exchanges of m_start_time
  pc,             \* [Threads -> label]
  op,             \* [Threads -> frame of the running call]
  nops            \* [Threads -> Nat]  calls started

vars == <<now, m_start_time, m_lstrm_mtx, m_min_lvl_atm, m_lstrm, files,
          console, sunk, pc, op, nops>>

\* ------------------------------------------------------- basic_logstream
\* std::ios_base::iostate as the set of bits that are set; goodbit = {}
goodbit == {}
badbit == "badbit"
failbit == "failbit"

\* A sink: the rdbuf pointer (clog's buffer or the sink's own m_filebuf),
\* the ios error state, and m_filebuf (its open file and its put area).
ConsoleSink ==
  [rdbuf |-> "clog", state |-> goodbit, fb |-> [file |-> NoFile, buf |-> <<>>]]

\* A world is what a sink operation can touch: the sink, the files and the
\* console.
World(s, f, c) == [s |-> s, files |-> f, console |-> c]

\* slug.hpp:77
is_open(s) == s.fb.file # NoFile

good(s) == s.state = goodbit

\* basic_ios::clear(): error state back to goodbit (rdbuf is never null here)
clear(s) == [s EXCEPT !.state = goodbit]

\* basic_ios::setstate(bits)
setstate(s, bits) == [s EXCEPT !.state = @ \cup bits]

\* rdbuf(sb) that keeps the error state
set_rdbuf_keeps_state(s, sb) == [s EXCEPT !.rdbuf = sb]

\* basic_ios::rdbuf(sb): install the buffer and call clear()
set_rdbuf(s, sb) == clear([s EXCEPT !.rdbuf = sb])

\* basic_filebuf::sync / overflow of the put area into the open file
filebuf_sync(w) ==
  IF is_open(w.s)
  THEN [w EXCEPT !.files[w.s.fb.file] = @ \o w.s.fb.buf, !.s.fb.buf = <<>>]
  ELSE w

\* rdbuf()->pubsync(): std::clog is written through, a filebuf syncs
pubsync(w) == IF w.s.rdbuf = "filebuf" THEN filebuf_sync(w) ELSE w

\* basic_ostream::sentry (libstdc++): ok iff good(); a bad stream gets failbit
sentry_ok(s) == good(s)
sentry_fail(s) == IF badbit \in s.state THEN setstate(s, {failbit}) ELSE s

\* basic_ostream::flush(): through a sentry, then pubsync
flush(w) ==
  IF sentry_ok(w.s) THEN pubsync(w) ELSE [w EXCEPT !.s = sentry_fail(w.s)]

\* operator<< that falls back to the console when the filebuf is closed
insert_fallback(w, c) ==
  IF ~good(w.s) THEN w
  ELSE IF w.s.rdbuf = "clog" \/ ~is_open(w.s) THEN [w EXCEPT !.console = Append(@, c)]
  ELSE [w EXCEPT !.s.fb.buf = Append(@, c)]

\* operator<< of one value: through a sentry, then sputn on rdbuf.  clog is
\* written through; an open filebuf buffers; a closed filebuf refuses the
\* characters and the stream gets badbit.
insert(w, c) ==
  IF ~sentry_ok(w.s) THEN [w EXCEPT !.s = sentry_fail(w.s)]
  ELSE IF w.s.rdbuf = "clog" THEN [w EXCEPT !.console = Append(@, c)]
  ELSE IF is_open(w.s) THEN [w EXCEPT !.s.fb.buf = Append(@, c)]
  ELSE [w EXCEPT !.s = setstate(w.s, {badbit})]

\* std::endl: put('\n') then flush()
endl(w, c) == flush(insert(w, c))

\* basic_filebuf::close(): write the put area out and release the file
filebuf_close(w) == [filebuf_sync(w) EXCEPT !.s.fb.file = NoFile]

\* slug.hpp:98-107  basic_logstream::close
close(w) ==
  LET w1 == flush(w) IN
    IF is_open(w1.s)
    THEN LET w2 == filebuf_close(w1) IN [w2 EXCEPT !.s = set_rdbuf(w2.s, "clog")]
    ELSE w1

\* basic_filebuf::open(path, binary|out|app): null when the file cannot be
\* opened (or the filebuf is already open)
filebuf_open_ok(s, path) == ~is_open(s) /\ path \in GoodPaths

\* open that does not close the file that is open
open_without_close(w, path) ==
  LET w2 == IF filebuf_open_ok(w.s, path)
            THEN [w EXCEPT !.s.fb.file = path]
            ELSE [w EXCEPT !.s = setstate(w.s, {failbit})]
      w3 == flush(w2)
  IN [w3 EXCEPT !.s = set_rdbuf(w3.s, "filebuf")]

\* slug.hpp:82-94  basic_logstream::open
open(w, path) ==
  LET w1 == IF is_open(w.s) THEN close(w) ELSE w
      w2 == IF filebuf_open_ok(w1.s, path)
            THEN [w1 EXCEPT !.s.fb.file = path]
            ELSE [w1 EXCEPT !.s = setstate(w1.s, {failbit})]
      w3 == flush(w2)
  IN [w3 EXCEPT !.s = set_rdbuf(w3.s, "filebuf")]

\* slug.hpp:110-115  basic_logstream::swap on two distinct sinks, the new
\* value of the first: basic_ios::swap exchanges the state but not rdbuf,
\* then the filebufs are exchanged
swap_sink(s, r) == [rdbuf |-> s.rdbuf, state |-> r.state, fb |-> r.fb]

\* slug.hpp:57, 61-64  the two constructors of basic_logstream
ctor_sink(path) ==
  IF path = NoFile THEN ConsoleSink
  ELSE open(World(ConsoleSink, [p \in GoodPaths |-> <<>>], <<>>), path).s

\* ---------------------------------------------------------- basic_logger
\* The sink of logger l together with the files and the console
W(l) == World(m_lstrm[l], files, console)

\* What the accessors of logger l return: start_time(), min_log_level(),
\* and of stream(): is_open(), rdbuf() and rdstate().
NoArg == "-"
NoLevel == -1
View(l) ==
  [start |-> m_start_time[l], lvl |-> m_min_lvl_atm[l],
   open |-> is_open(m_lstrm[l]), rdbuf |-> m_lstrm[l].rdbuf,
   state |-> m_lstrm[l].state]
Views == [l \in Loggers |-> View(l)]
NoViews ==
  [l \in Loggers |-> [start |-> 0, lvl |-> NoLevel, open |-> FALSE,
                      rdbuf |-> NoArg, state |-> {}]]

\* The frame of a call: which operation, on which logger, its argument
\* (severity, path, level or right-hand logger), the level it loaded and
\* its number among the calls of its thread. The frame of a swap also
\* remembers what the accessors of the loggers returned when it was called
\* (pre) and, when the call before it on its thread was the same swap
\* (chain = 2), what they returned when that one was called (prev).
NoCall == [name |-> "none", l |-> "-", arg |-> NoArg, sev |-> NoLevel,
           lvl |-> NoLevel, k |-> 0, pre |-> NoViews, prev |-> NoViews,
           chain |-> 0]
Frame(name, l, arg, sev, lvl, k) ==
  [name |-> name, l |-> l, arg |-> arg, sev |-> sev, lvl |-> lvl, k |-> k,
   pre |-> NoViews, prev |-> NoViews, chain |-> 0]
SwapFrame(t, l, r) ==
  LET again == op[t].name = "swap" /\ op[t].l = l /\ op[t].arg = r /\ l # r
  IN [Frame("swap", l, r, NoLevel, NoLevel, nops[t] + 1) EXCEPT
        !.pre = Views,
        !.prev = IF again THEN op[t].pre ELSE NoViews,
        !.chain = IF again THEN 2 ELSE 1]

CanCall(t) == pc[t] = "idle"

\* slug.hpp:304-308  current_time(): the steady clock in milliseconds
current_time == now

\* the subtraction of elapsed_time() turned round
elapsed_time_reversed(l) == m_start_time[l] - current_time

\* slug.hpp:311-314  elapsed_time()
elapsed_time(l) == current_time - m_start_time[l]

\* What one insertion hands to the stream: the call it belongs to, which
\* part of the line it is, and its text (thread id and elapsed time for the
\* prefix, the level for the tag).
Chunk(t, k, part, tid, val) ==
  [id |-> <<t, k>>, part |-> part, tid |-> tid, val |-> val]

\* slug.hpp:294-301  msg_prefix(): "[<thread id>, <elapsed>] "
msg_prefix(t, l) == Chunk(t, op[t].k, "prefix", t, elapsed_time(l))

\* slug.hpp:230,244,258,272,286  the level tag of each entry point
level_tag(t) == Chunk(t, op[t].k, "tag", "-", op[t].sev)

\* the concatenated arguments of the call, and the line terminator
msgs(t) == Chunk(t, op[t].k, "args", "-", 0)
newline(t) == Chunk(t, op[t].k, "eol", "-", 0)

\* the mark an exchange of start times leaves in the history of a logger
swapped(t) == Chunk(t, op[t].k, "swap", "-", 0)

\* The sink of l becomes w.s, the files and the console become w's.
Commit(l, w) ==
  /\ m_lstrm' = [m_lstrm EXCEPT ![l] = w.s]
  /\ files' = w.files
  /\ console' = w.console

\* the gate with the comparison turned strict
passes_strict(sev, lvl) == sev > lvl

\* slug.hpp:228,242,256,270,284  the gate of fatal/error/warning/info/trace
passes(sev, lvl) == sev >= lvl

\* a logging call that goes for the mutex whatever the level it loaded
LogGate_ungated(t, l, sev) ==
  /\ CanCall(t)
  /\ LET lvl == m_min_lvl_atm[l]
         f == Frame("log", l, NoArg, sev, lvl, nops[t] + 1)
     IN /\ op' = [op EXCEPT ![t] = f]
        /\ pc' = [pc EXCEPT ![t] = "lock"]
  /\ nops' = [nops EXCEPT ![t] = @ + 1]
  /\ UNCHANGED <<now, m_start_time, m_lstrm_mtx, m_min_lvl_atm, m_lstrm,
                 files, console, sunk>>

\* A logging call starts: it loads the minimum level and compares.
LogGate(t, l, sev) ==
  /\ CanCall(t)
  /\ LET lvl == m_min_lvl_atm[l]
         f == Frame("log", l, NoArg, sev, lvl, nops[t] + 1)
     IN /\ op' = [op EXCEPT ![t] = f]
        /\ pc' = [pc EXCEPT ![t] = IF passes(sev, lvl) THEN "lock" ELSE "idle"]
  /\ nops' = [nops EXCEPT ![t] = @ + 1]
  /\ UNCHANGED <<now, m_start_time, m_lstrm_mtx, m_min_lvl_atm, m_lstrm,
                 files, console, sunk>>

\* a lock that does not wait for the owner
mutex_not_waited(l) == l \in Loggers

\* slug.hpp:190-192  lock_stream(): std::unique_lock on m_lstrm_mtx; blocks
\* while another thread owns the mutex
mutex_free(l) == m_lstrm_mtx[l] = NoThread

AfterLock(name) ==
  CASE name = "log" -> "prefix"
    [] name = "open_file" -> "open"
    [] name = "close_file" -> "close"

LockStream(t) ==
  /\ pc[t] = "lock"
  /\ mutex_free(op[t].l)
  /\ m_lstrm_mtx' = [m_lstrm_mtx EXCEPT ![op[t].l] = t]
  /\ pc' = [pc EXCEPT ![t] = AfterLock(op[t].name)]
  /\ UNCHANGED <<now, m_start_time, m_min_lvl_atm, m_lstrm, files, console,
                 sunk, op, nops>>

\* One insertion of the logging call of t into the sink of its logger.
Put(t, c, next) ==
  /\ Commit(op[t].l, insert(W(op[t].l), c))
  /\ sunk' = [sunk EXCEPT ![op[t].l] = Append(@, c)]
  /\ pc' = [pc EXCEPT ![t] = next]
  /\ UNCHANGED <<now, m_start_time, m_lstrm_mtx, m_min_lvl_atm, op, nops>>

\* slug.hpp:230  m_lstrm << msg_prefix()
LogPrefix(t) == pc[t] = "prefix" /\ Put(t, msg_prefix(t, op[t].l), "tag")

\* slug.hpp:230  ... << "FATAL: "
LogTag(t) == pc[t] = "tag" /\ Put(t, level_tag(t), "args")

\* slug.hpp:231  (m_lstrm << ... << msgs)
LogArgs(t) == pc[t] = "args" /\ Put(t, msgs(t), "endl")

\* slug.hpp:231  ... << std::endl
LogEndl(t) ==
  /\ pc[t] = "endl"
  /\ Commit(op[t].l, endl(W(op[t].l), newline(t)))
  /\ sunk' = [sunk EXCEPT ![op[t].l] = Append(@, newline(t))]
  /\ pc' = [pc EXCEPT ![t] = "unlock"]
  /\ UNCHANGED <<now, m_start_time, m_lstrm_mtx, m_min_lvl_atm, op, nops>>

\* a return that keeps the mutex locked
Unlock_keeps_mutex(t) ==
  /\ pc[t] = "unlock"
  /\ pc' = [pc EXCEPT ![t] = "idle"]
  /\ UNCHANGED <<now, m_start_time, m_lstrm_mtx, m_min_lvl_atm, m_lstrm,
                 files, console, sunk, op, nops>>

\* slug.hpp:232-233, 211, 219  the unique_lock goes out of scope; return
Unlock(t) ==
  /\ pc[t] = "unlock"
  /\ m_lstrm_mtx' = [m_lstrm_mtx EXCEPT ![op[t].l] = NoThread]
  /\ pc' = [pc EXCEPT ![t] = "idle"]
  /\ UNCHANGED <<now, m_start_time, m_min_lvl_atm, m_lstrm, files, console,
                 sunk, op, nops>>

\* slug.hpp:208-212  open_file(path)
OpenFileCall(t, l, path) ==
  /\ CanCall(t)
  /\ op' = [op EXCEPT ![t] = Frame("open_file", l, path, NoLevel, NoLevel, nops[t] + 1)]
  /\ pc' = [pc EXCEPT ![t] = "lock"]
  /\ nops' = [nops EXCEPT ![t] = @ + 1]
  /\ UNCHANGED <<now, m_start_time, m_lstrm_mtx, m_min_lvl_atm, m_lstrm,
                 files, console, sunk>>

\* slug.hpp:210  m_lstrm.open(filepath)
OpenFileBody(t) ==
  /\ pc[t] = "open"
  /\ Commit(op[t].l, open(W(op[t].l), op[t].arg))
  /\ pc' = [pc EXCEPT ![t] = "unlock"]
  /\ UNCHANGED <<now, m_start_time, m_lstrm_mtx, m_min_lvl_atm, sunk, op, nops>>

\* slug.hpp:216-220  close_file()
CloseFileCall(t, l) ==
  /\ CanCall(t)
  /\ op' = [op EXCEPT ![t] = Frame("close_file", l, NoArg, NoLevel, NoLevel, nops[t] + 1)]
  /\ pc' = [pc EXCEPT ![t] = "lock"]
  /\ nops' = [nops EXCEPT ![t] = @ + 1]
  /\ UNCHANGED <<now, m_start_time, m_lstrm_mtx, m_min_lvl_atm, m_lstrm,
                 files, console, sunk>>

\* slug.hpp:218  m_lstrm.close()
CloseFileBody(t) ==
  /\ pc[t] = "close"
  /\ Commit(op[t].l, close(W(op[t].l)))
  /\ pc' = [pc EXCEPT ![t] = "unlock"]
  /\ UNCHANGED <<now, m_start_time, m_lstrm_mtx, m_min_lvl_atm, sunk, op, nops>>

\* a setter that takes the sink mutex before it stores
SetMinLogLevel_locked(t, l, lvl) ==
  /\ CanCall(t)
  /\ mutex_free(l)
  /\ m_min_lvl_atm' = [m_min_lvl_atm EXCEPT ![l] = lvl]
  /\ op' = [op EXCEPT ![t] = Frame("set_level", l, NoArg, NoLevel, lvl, nops[t] + 1)]
  /\ nops' = [nops EXCEPT ![t] = @ + 1]
  /\ UNCHANGED <<now, m_start_time, m_lstrm_mtx, m_lstrm, files, console,
                 sunk, pc>>

\* slug.hpp:197-200  min_log_level(lvl): an atomic store, no lock
SetMinLogLevel(t, l, lvl) ==
  /\ CanCall(t)
  /\ m_min_lvl_atm' = [m_min_lvl_atm EXCEPT ![l] = lvl]
  /\ op' = [op EXCEPT ![t] = Frame("set_level", l, NoArg, NoLevel, lvl, nops[t] + 1)]
  /\ nops' = [nops EXCEPT ![t] = @ + 1]
  /\ UNCHANGED <<now, m_start_time, m_lstrm_mtx, m_lstrm, files, console,
                 sunk, pc>>

\* slug.hpp:203  min_log_level(): an atomic load, no lock
GetMinLogLevel(t, l) ==
  /\ CanCall(t)
  /\ op' = [op EXCEPT ![t] = Frame("get_level", l, NoArg, NoLevel, m_min_lvl_atm[l], nops[t] + 1)]
  /\ nops' = [nops EXCEPT ![t] = @ + 1]
  /\ UNCHANGED <<now, m_start_time, m_lstrm_mtx, m_min_lvl_atm, m_lstrm,
                 files, console, sunk, pc>>

\* a swap that does not compare rhs with this logger
SwapCall_unchecked(t, l, r) ==
  /\ CanCall(t)
  /\ op' = [op EXCEPT ![t] = SwapFrame(t, l, r)]
  /\ pc' = [pc EXCEPT ![t] = "swap_lock"]
  /\ nops' = [nops EXCEPT ![t] = @ + 1]
  /\ UNCHANGED <<now, m_start_time, m_lstrm_mtx, m_min_lvl_atm, m_lstrm,
                 files, console, sunk>>

\* slug.hpp:320-321  swap(rhs): nothing to do when rhs is this logger
SwapCall(t, l, r) ==
  /\ CanCall(t)
  /\ op' = [op EXCEPT ![t] = SwapFrame(t, l, r)]
  /\ pc' = [pc EXCEPT ![t] = IF l # r THEN "swap_lock" ELSE "idle"]
  /\ nops' = [nops EXCEPT ![t] = @ + 1]
  /\ UNCHANGED <<now, m_start_time, m_lstrm_mtx, m_min_lvl_atm, m_lstrm,
                 files, console, sunk>>

\* slug.hpp:322  auto l{lock_stream()}
SwapLockThis(t) ==
  /\ pc[t] = "swap_lock"
  /\ mutex_free(op[t].l)
  /\ m_lstrm_mtx' = [m_lstrm_mtx EXCEPT ![op[t].l] = t]
  /\ pc' = [pc EXCEPT ![t] = "swap_lock_rhs"]
  /\ UNCHANGED <<now, m_start_time, m_min_lvl_atm, m_lstrm, files, console,
                 sunk, op, nops>>

\* slug.hpp:323  auto lr{rhs.lock_stream()}
SwapLockRhs(t) ==
  /\ pc[t] = "swap_lock_rhs"
  /\ mutex_free(op[t].arg)
  /\ m_lstrm_mtx' = [m_lstrm_mtx EXCEPT ![op[t].arg] = t]
  /\ pc' = [pc EXCEPT ![t] = "swap_time"]
  /\ UNCHANGED <<now, m_start_time, m_min_lvl_atm, m_lstrm, files, console,
                 sunk, op, nops>>

\* slug.hpp:324  std::swap(m_start_time, rhs.m_start_time)
SwapStartTime(t) ==
  /\ pc[t] = "swap_time"
  /\ LET l == op[t].l
         r == op[t].arg
     IN m_start_time' = [m_start_time EXCEPT ![l] = m_start_time[r],
                                              ![r] = m_start_time[l]]
  /\ sunk' = [l \in Loggers |->
                IF l \in {op[t].l, op[t].arg} THEN Append(sunk[l], swapped(t))
                ELSE sunk[l]]
  /\ pc' = [pc EXCEPT ![t] = "swap_strm"]
  /\ UNCHANGED <<now, m_lstrm_mtx, m_min_lvl_atm, m_lstrm, files, console,
                 op, nops>>

\* slug.hpp:325  m_lstrm.swap(rhs.m_lstrm)
SwapStream(t) ==
  /\ pc[t] = "swap_strm"
  /\ LET l == op[t].l
         r == op[t].arg
     IN m_lstrm' = [m_lstrm EXCEPT ![l] = swap_sink(m_lstrm[l], m_lstrm[r]),
                                    ![r] = swap_sink(m_lstrm[r], m_lstrm[l])]
  /\ pc' = [pc EXCEPT ![t] = "swap_load"]
  /\ UNCHANGED <<now, m_start_time, m_lstrm_mtx, m_min_lvl_atm, files,
                 console, sunk, op, nops>>

\* slug.hpp:326  m_min_lvl_atm.load()
SwapLoad(t) ==
  /\ pc[t] = "swap_load"
  /\ op' = [op EXCEPT ![t].lvl = m_min_lvl_atm[op[t].l]]
  /\ pc' = [pc EXCEPT ![t] = "swap_xchg"]
  /\ UNCHANGED <<now, m_start_time, m_lstrm_mtx, m_min_lvl_atm, m_lstrm,
                 files, console, sunk, nops>>

\* a store into rhs in place of the exchange: the level of rhs is not fetched
SwapExchange_store_only(t) ==
  /\ pc[t] = "swap_xchg"
  /\ m_min_lvl_atm' = [m_min_lvl_atm EXCEPT ![op[t].arg] = op[t].lvl]
  /\ pc' = [pc EXCEPT ![t] = "swap_store"]
  /\ UNCHANGED <<now, m_start_time, m_lstrm_mtx, m_lstrm, files, console,
                 sunk, op, nops>>

\* slug.hpp:326  rhs.m_min_lvl_atm.exchange(<loaded>)
SwapExchange(t) ==
  /\ pc[t] = "swap_xchg"
  /\ m_min_lvl_atm' = [m_min_lvl_atm EXCEPT ![op[t].arg] = op[t].lvl]
  /\ op' = [op EXCEPT ![t].lvl = m_min_lvl_atm[op[t].arg]]
  /\ pc' = [pc EXCEPT ![t] = "swap_store"]
  /\ UNCHANGED <<now, m_start_time, m_lstrm_mtx, m_lstrm, files, console,
                 sunk, nops>>

\* slug.hpp:326  m_min_lvl_atm.store(<exchanged>)
SwapStore(t) ==
  /\ pc[t] = "swap_store"
  /\ m_min_lvl_atm' = [m_min_lvl_atm EXCEPT ![op[t].l] = op[t].lvl]
  /\ pc' = [pc EXCEPT ![t] = "swap_unlock"]
  /\ UNCHANGED <<now, m_start_time, m_lstrm_mtx, m_lstrm, files, console,
                 sunk, op, nops>>

\* slug.hpp:327-328  lr and l go out of scope: both mutexes are released
SwapUnlock(t) ==
  /\ pc[t] = "swap_unlock"
  /\ m_lstrm_mtx' = [m_lstrm_mtx EXCEPT ![op[t].l] = NoThread,
                                         ![op[t].arg] = NoThread]
  /\ pc' = [pc EXCEPT ![t] = "idle"]
  /\ UNCHANGED <<now, m_start_time, m_min_lvl_atm, m_lstrm, files, console,
                 sunk, op, nops>>

\* std::chrono::steady_clock advances
Tick ==
  /\ now < MaxClock
  /\ now' = now + 1
  /\ UNCHANGED <<m_start_time, m_lstrm_mtx, m_min_lvl_atm, m_lstrm, files,
                 console, sunk, pc, op, nops>>

\* ------------------------------------------------------------- behaviours
\* slug.hpp:159-173  the constructors: the start time is the clock reading,
\* the sink is on the console or opened on the given path, the level is the
\* given one.  Logger a is constructed at time 0, logger b at time 1.
CtorPaths == {NoFile, "A", "bad"}

ctor_logger(l, t0, lvl, path) ==
  /\ m_start_time[l] = t0
  /\ m_lstrm_mtx[l] = NoThread
  /\ m_lstrm[l] = ctor_sink(path)
  /\ m_min_lvl_atm[l] = lvl

InitWith(levelsA, pathsA, levelsB, pathsB) ==
  /\ now = 1
  /\ m_start_time \in [Loggers -> 0 .. 1]
  /\ m_lstrm_mtx \in [Loggers -> {NoThread}]
  /\ m_min_lvl_atm \in [Loggers -> log_level]
  /\ m_lstrm \in [Loggers -> {ctor_sink(p) : p \in Paths \cup {NoFile}}]
  /\ \E la \in levelsA, pa \in pathsA : ctor_logger("a", 0, la, pa)
  /\ \E lb \in levelsB, pb \in pathsB : ctor_logger("b", 1, lb, pb)
  /\ files = [p \in GoodPaths |-> <<>>]
  /\ console = <<>>
  /\ sunk = [l \in Loggers |-> <<>>]
  /\ pc = [t \in Threads |-> "idle"]
  /\ op = [t \in Threads |-> NoCall]
  /\ nops = [t \in Threads |-> 0]

\* The statements of a logging call that has passed the gate
LogStep(t) ==
  \/ LockStream(t)
  \/ LogPrefix(t)
  \/ LogTag(t)
  \/ LogArgs(t)
  \/ LogEndl(t)
  \/ Unlock(t)

\* The statement of open_file and of close_file under the lock
FileStep(t) ==
  \/ OpenFileBody(t)
  \/ CloseFileBody(t)

\* The statements of a swap of two distinct loggers
SwapStep(t) ==
  \/ SwapLockThis(t)
  \/ SwapLockRhs(t)
  \/ SwapStartTime(t)
  \/ SwapStream(t)
  \/ SwapLoad(t)
  \/ SwapExchange(t)
  \/ SwapStore(t)
  \/ SwapUnlock(t)

Budget(t, n) == nops[t] < n

\* Spec: one caller works through any sequence of logging calls, open_file,
\* close_file and swap on two loggers constructed on the console or on a
\* file; open_file takes paths that open and a path that does not.
Caller == 1
SpecSeverities == {Trace, Error}

Init == InitWith({default_lvl}, {NoFile, "A"}, {Warn}, {NoFile, "B"})

Next ==
  \/ \E l \in Loggers, sev \in SpecSeverities :
       Budget(Caller, MaxOps) /\ LogGate(Caller, l, sev)
  \/ \E l \in Loggers, p \in Paths :
       Budget(Caller, MaxOps) /\ OpenFileCall(Caller, l, p)
  \/ \E l \in Loggers : Budget(Caller, MaxOps) /\ CloseFileCall(Caller, l)
  \/ \E l \in Loggers, r \in Loggers :
       Budget(Caller, MaxOps) /\ SwapCall(Caller, l, r)
  \/ LogStep(Caller)
  \/ FileStep(Caller)
  \/ SwapStep(Caller)

Spec == Init /\ [][Next]_vars

\* SpecGate: one caller sets and reads the minimum level of logger a and logs
\* at every severity, the clock running; the logger is constructed with any
\* level on any sink.
InitGate == InitWith(log_level, CtorPaths, {default_lvl}, {NoFile})

NextGate ==
  \/ \E sev \in Severities :
       Budget(Caller, MaxGateOps) /\ LogGate(Caller, "a", sev)
  \/ \E lvl \in log_level :
       Budget(Caller, MaxGateOps) /\ SetMinLogLevel(Caller, "a", lvl)
  \/ Budget(Caller, MaxGateOps) /\ GetMinLogLevel(Caller, "a")
  \/ LogStep(Caller)
  \/ Tick

SpecGate == InitGate /\ [][NextGate]_vars

\* SpecLog: NumThreads threads each make MaxCalls logging calls that pass the
\* gate through the shared logger a.
LogSeverities == {Warn}

InitLog == InitWith({Trace, default_lvl}, CtorPaths, {default_lvl}, {NoFile})

NextLog ==
  \/ \E t \in Threads, sev \in LogSeverities :
       Budget(t, MaxCalls) /\ LogGate(t, "a", sev)
  \/ \E t \in Threads : LogStep(t)

SpecLog == InitLog /\ [][NextLog]_vars

\* SpecSwap: NumThreads threads each make MaxCalls swaps of the two loggers,
\* in either direction.
InitSwap == InitWith({Trace}, {NoFile, "A"}, {Error}, {NoFile})

NextSwap ==
  \/ \E t \in Threads, l \in Loggers, r \in Loggers :
       Budget(t, MaxCalls) /\ SwapCall(t, l, r)
  \/ \E t \in Threads : SwapStep(t)

SpecSwap == InitSwap /\ [][NextSwap]_vars

\* SpecLevel: thread Setter sets and reads the minimum level of logger a and
\* logs through it while thread Writer logs through it; only Setter stores.
Setter == 1
Writer == 2
LevelSeverities == {Warn, Fatal}
Stored == {Warn, Error, None}

InitLevel == InitWith({default_lvl}, {NoFile}, {default_lvl}, {NoFile})

NextLevel ==
  \/ \E lvl \in Stored :
       Budget(Setter, MaxCalls) /\ SetMinLogLevel(Setter, "a", lvl)
  \/ Budget(Setter, MaxCalls) /\ GetMinLogLevel(Setter, "a")
  \/ \E t \in {Setter, Writer}, sev \in LevelSeverities :
       Budget(t, MaxCalls) /\ LogGate(t, "a", sev)
  \/ \E t \in {Setter, Writer} : LogStep(t)

SpecLevel == InitLevel /\ [][NextLevel]_vars

\* SpecClock: two threads log through logger a, started at 0, while the
\* clock runs; the second one also swaps a with logger b, started at 1.
ClockThreads == {1, 2}
Swapper == 2

InitClock == InitWith({Trace}, {NoFile}, {Trace}, {NoFile})

NextClock ==
  \/ \E t \in ClockThreads : Budget(t, MaxCalls) /\ LogGate(t, "a", Warn)
  \/ Budget(Swapper, MaxCalls) /\ SwapCall(Swapper, "a", "b")
  \/ \E t \in ClockThreads : LogStep(t)
  \/ SwapStep(Swapper)
  \/ Tick

SpecClock == InitClock /\ [][NextClock]_vars

\* SpecFile: two threads log through logger a while the second one also
\* redirects it (open_file, close_file) and swaps it with logger b.
FileThreads == {1, 2}
Redirector == 2

InitFile == InitWith({Trace}, {NoFile, "A"}, {Trace}, {NoFile})

NextFile ==
  \/ \E t \in FileThreads : Budget(t, MaxCalls) /\ LogGate(t, "a", Warn)
  \/ \E p \in Paths :
       Budget(Redirector, MaxCalls) /\ OpenFileCall(Redirector, "a", p)
  \/ Budget(Redirector, MaxCalls) /\ CloseFileCall(Redirector, "a")
  \/ Budget(Redirector, MaxCalls) /\ SwapCall(Redirector, "a", "b")
  \/ \E t \in FileThreads : LogStep(t)
  \/ FileStep(Redirector)
  \/ SwapStep(Redirector)

SpecFile == InitFile /\ [][NextFile]_vars

\* SpecLive: two threads share logger a under fair scheduling; the first
\* logs and sets and reads the minimum level, the second logs and redirects
\* the sink with open_file (paths that open and that do not) and close_file.
\* Scheduling is fair to each thread: a statement a thread can keep on
\* running is eventually run.
LiveThreads == {1, 2}
LiveLevels == {None}
LivePaths == {"A", "bad"}

InitLive == InitWith({default_lvl}, {NoFile}, {default_lvl}, {NoFile})

NextLive ==
  \/ \E t \in LiveThreads : Budget(t, MaxCalls) /\ LogGate(t, "a", Warn)
  \/ \E lvl \in LiveLevels :
       Budget(Setter, MaxCalls) /\ SetMinLogLevel(Setter, "a", lvl)
  \/ Budget(Setter, MaxCalls) /\ GetMinLogLevel(Setter, "a")
  \/ \E p \in LivePaths :
       Budget(Redirector, MaxCalls) /\ OpenFileCall(Redirector, "a", p)
  \/ Budget(Redirector, MaxCalls) /\ CloseFileCall(Redirector, "a")
  \/ \E t \in LiveThreads : LogStep(t)
  \/ FileStep(Redirector)

FairLive == \A t \in LiveThreads : WF_vars(LogStep(t) \/ FileStep(t))

SpecLive == InitLive /\ [][NextLive]_vars /\ FairLive

\* SpecSwapLevel: thread Swapper swaps logger a (level Trace) with logger b
\* (level Error) while thread Setter stores levels into either logger.
SwapLevels == {Warn, None}

NextSwapLevel ==
  \/ Budget(Swapper, MaxCalls) /\ SwapCall(Swapper, "a", "b")
  \/ \E l \in Loggers, lvl \in SwapLevels :
       Budget(Setter, MaxCalls) /\ SetMinLogLevel(Setter, l, lvl)
  \/ SwapStep(Swapper)

SpecSwapLevel == InitSwap /\ [][NextSwapLevel]_vars

\* SpecSelfSwap: thread Caller swaps each logger with itself while thread
\* Swapper swaps logger a with logger b.
NextSelfSwap ==
  \/ \E l \in Loggers : Budget(Caller, MaxCalls) /\ SwapCall(Caller, l, l)
  \/ Budget(Swapper, MaxCalls) /\ SwapCall(Swapper, "a", "b")
  \/ SwapStep(Swapper)

SpecSelfSwap == InitSwap /\ [][NextSelfSwap]_vars

\* ------------------------------------------------------------ observation
\* Where the characters inserted into sink s go: the console, the open file
\* of its filebuf, or nowhere when rdbuf is the closed filebuf.
Dest(s) ==
  IF s.rdbuf = "clog" THEN "console"
  ELSE IF is_open(s) THEN s.fb.file
  ELSE "failed"

\* What has reached a destination
Content(d) == IF d = "console" THEN console ELSE files[d]

Healthy(s) == good(s) /\ Dest(s) # "failed"

Parts == <<"prefix", "tag", "args", "eol">>

\* The chunks of q that belong to call id
ChunksOf(q, id) == {i \in 1 .. Len(q) : q[i].id = id}

\* q[i .. i+3] is the whole line of call id: prefix, tag, arguments, newline
LineAt(q, i, id) ==
  /\ i >= 1
  /\ i + 3 <= Len(q)
  /\ \A j \in 1 .. 4 : q[i + j - 1].id = id /\ q[i + j - 1].part = Parts[j]

\* q ends with the whole line of call id
EndsWithLine(q, id) == LineAt(q, Len(q) - 3, id)

\* q is a sequence of whole lines, the last one possibly still being written
WholeLines(q) ==
  \A i \in 1 .. Len(q) :
    /\ q[i].part = Parts[((i - 1) % 4) + 1]
    /\ q[i].id = q[i - ((i - 1) % 4)].id

Returned(t, name) == pc[t] = "idle" /\ op[t].name = name

Writing(t) == pc[t] \in {"prefix", "tag", "args", "endl"}

\* ----------------------------------------------------------------- claims

\* C1 (SpecGate): a logging call at severity L on a logger whose threshold is
\* T hands exactly one line to the sink if L >= T and nothing if L < T, for
\* all five severities and all six thresholds; the line carries the caller's
\* thread id and the level tag of the entry point; on a sink that is not
\* failed the line is the last thing on the sink's destination.
C1_EmittedIffAtLeastThreshold ==
  \A t \in Threads :
    Returned(t, "log") =>
      LET l == op[t].l
          id == <<t, op[t].k>>
          L == op[t].sev
          T == m_min_lvl_atm[l]
          q == sunk[l]
      IN /\ L >= T =>
              /\ Cardinality(ChunksOf(q, id)) = 4
              /\ EndsWithLine(q, id)
              /\ q[Len(q) - 3].tid = t
              /\ q[Len(q) - 2].val = L
              /\ Healthy(m_lstrm[l]) =>
                   /\ EndsWithLine(Content(Dest(m_lstrm[l])), id)
                   /\ m_lstrm[l].fb.buf = <<>>
         /\ L < T =>
              /\ ChunksOf(q, id) = {}
              /\ ChunksOf(console, id) = {}
              /\ \A p \in GoodPaths : ChunksOf(files[p], id) = {}

C1_Witness ==
  \E t \in Threads :
    /\ Returned(t, "log")
    /\ op[t].sev = Fatal
    /\ m_min_lvl_atm[op[t].l] = Fatal
    /\ Dest(m_lstrm[op[t].l]) = "A"
    /\ EndsWithLine(files["A"], <<t, op[t].k>>)

\* C2 (SpecLog): NumThreads threads each make MaxCalls passing calls through
\* logger a: the sink receives whole lines only, each the prefix, tag,
\* arguments and newline of one call, in that order; when all calls have
\* returned it has received exactly NumThreads * MaxCalls lines, one per
\* call; on a sink that is not failed the destination holds the same lines.
AllReturned == \A t \in Threads : pc[t] = "idle" /\ nops[t] = MaxCalls

C2_WholeLinesOnly ==
  LET q == sunk["a"]
      s == m_lstrm["a"]
  IN /\ WholeLines(q)
     /\ Healthy(s) => Content(Dest(s)) \o s.fb.buf = q
     /\ AllReturned =>
          /\ Len(q) = 4 * NumThreads * MaxCalls
          /\ \A t \in Threads, k \in 1 .. MaxCalls :
               \E i \in 1 .. Len(q) : LineAt(q, i, <<t, k>>)

C2_Witness ==
  /\ AllReturned
  /\ Dest(m_lstrm["a"]) = "A"
  /\ Len(files["A"]) = 4 * NumThreads * MaxCalls
  /\ files["A"][1].id[1] # files["A"][5].id[1]

\* C3 (SpecSwap): a.swap(b) on one thread and b.swap(a) on another never
\* reach a state in which each holds one logger's mutex and waits for the
\* other's.
C3_SwapNeverDeadlocks ==
  ~ \E t \in Threads, u \in Threads :
      /\ t # u
      /\ pc[t] = "swap_lock_rhs"
      /\ pc[u] = "swap_lock_rhs"
      /\ m_lstrm_mtx[op[t].arg] = u
      /\ m_lstrm_mtx[op[u].arg] = t

\* C4 (Spec): when close_file has run, the sink is on the console and fit to
\* write to it, whatever state it was in.
C4_CloseRevertsToConsole ==
  [][\A t \in Threads :
       CloseFileBody(t) =>
         /\ Dest(m_lstrm'[op[t].l]) = "console"
         /\ good(m_lstrm'[op[t].l])]_vars

\* C5 (Spec): the swap of two sinks exchanges their destinations.
C5_SwapExchangesDestinations ==
  [][\A t \in Threads :
       SwapStream(t) =>
         /\ Dest(m_lstrm'[op[t].l]) = Dest(m_lstrm[op[t].arg])
         /\ Dest(m_lstrm'[op[t].arg]) = Dest(m_lstrm[op[t].l])]_vars

\* C6 (Spec): is_open() is true iff the active destination is an open file,
\* and false iff it is the console.
C6_IsOpenIffFileActive ==
  \A l \in Loggers :
    /\ is_open(m_lstrm[l]) <=> Dest(m_lstrm[l]) \in GoodPaths
    /\ ~is_open(m_lstrm[l]) <=> Dest(m_lstrm[l]) = "console"

\* C7 (Spec): open_file(B) on a sink that writes to file A redirects it: the
\* open leaves the sink good and writing to B with A closed and A's content
\* as it was; every insertion of a sink that writes to a file then changes
\* that file (or its put area) only, by exactly the inserted text, and the
\* newline leaves the whole line at the end of that file.
C7_Redirect ==
  [][\A t \in Threads :
       LET l == op[t].l
           s == m_lstrm[l]
           s2 == m_lstrm'[l]
           A == Dest(s)
       IN /\ (OpenFileBody(t) /\ A \in GoodPaths /\ op[t].arg \in GoodPaths
                /\ op[t].arg # A) =>
               /\ Dest(s2) = op[t].arg
               /\ good(s2)
               /\ s2.fb.buf = <<>>
               /\ files'[A] = files[A] \o s.fb.buf
               /\ files'[op[t].arg] = files[op[t].arg]
               /\ console' = console
          /\ (Writing(t) /\ pc'[t] # pc[t] /\ A \in GoodPaths) =>
               /\ Dest(s2) = A
               /\ console' = console
               /\ \A p \in GoodPaths \ {A} : files'[p] = files[p]
               /\ files'[A] \o s2.fb.buf
                    = (files[A] \o s.fb.buf) \o <<sunk'[l][Len(sunk'[l])]>>
          /\ (LogEndl(t) /\ A \in GoodPaths) =>
               /\ s2.fb.buf = <<>>
               /\ EndsWithLine(files'[A], <<t, op[t].k>>)]_vars

C7_Witness ==
  \E t \in Threads :
    /\ Returned(t, "log")
    /\ op[t].k = 4
    /\ Dest(m_lstrm["a"]) = "B"
    /\ EndsWithLine(files["B"], <<t, 4>>)
    /\ Len(files["B"]) = 4
    /\ EndsWithLine(files["A"], <<t, 2>>)
    /\ Len(files["A"]) = 4
    /\ sunk["a"] = files["A"] \o files["B"]

\* C8 (Spec): when open_file fails to open the file, the stream is in a
\* failure state when it returns and the sink is on the failed file target.
C8_FailedOpenLeavesFailureState ==
  [][\A t \in Threads :
       (OpenFileBody(t) /\ op[t].arg \in BadPaths) =>
         /\ ~good(m_lstrm'[op[t].l])
         /\ Dest(m_lstrm'[op[t].l]) = "failed"]_vars

\* C9 (Spec): open_file with a valid path on a sink left on a failed target
\* clears the failure state, whatever error bits the attempts in between
\* have set, and binds the sink to the new file; a sink that writes to a file
\* is always good, and every passing call on it returns with its full line
\* at the end of that file.
C9_OpenRecovers ==
  [][\A t \in Threads :
       LET l == op[t].l
           s == m_lstrm[l]
           s2 == m_lstrm'[l]
       IN /\ (OpenFileBody(t) /\ op[t].arg \in GoodPaths /\ Dest(s) = "failed") =>
               /\ good(s2)
               /\ Dest(s2) = op[t].arg
               /\ s2.fb.buf = <<>>
          /\ \A r \in Loggers :
               Dest(m_lstrm'[r]) \in GoodPaths => good(m_lstrm'[r])
          /\ (Unlock(t) /\ op[t].name = "log" /\ Dest(s) \in GoodPaths) =>
               /\ EndsWithLine(files'[Dest(s)], <<t, op[t].k>>)
               /\ s2.fb.buf = <<>>]_vars

C9_Witness ==
  \E t \in Threads :
    /\ Returned(t, "log")
    /\ Dest(m_lstrm["a"]) = "A"
    /\ Len(sunk["a"]) = 8
    /\ files["A"] = SubSeq(sunk["a"], 5, 8)
    /\ console = <<>>
    /\ files["B"] = <<>>

\* C10 (Spec): while the sink is on a failed file target, every statement of
\* a passing logging call goes on to the next one and appends nothing: the
\* console, the files and the put area stay as they are and the sink stays
\* on the failed target; the call then releases the mutex and returns.
C10_FailedSinkWritesNothing ==
  [][\A t \in Threads :
       LET l == op[t].l
           s == m_lstrm[l]
           s2 == m_lstrm'[l]
       IN /\ (Writing(t) /\ Dest(s) = "failed") =>
               /\ Writing(t)' \/ pc'[t] = "unlock"
               /\ pc'[t] # pc[t]
               /\ console' = console
               /\ files' = files
               /\ s2.fb = s.fb
               /\ Dest(s2) = "failed"
               /\ \A r \in Loggers \ {l} : m_lstrm'[r] = m_lstrm[r]
          /\ (pc[t] = "unlock" /\ op[t].name = "log" /\ Dest(s) = "failed") =>
               /\ pc'[t] = "idle"
               /\ m_lstrm_mtx'[l] = NoThread
               /\ ~good(s2)]_vars

C10_Witness ==
  \E t \in Threads :
    /\ Returned(t, "log")
    /\ Dest(m_lstrm[op[t].l]) = "failed"
    /\ EndsWithLine(sunk[op[t].l], <<t, op[t].k>>)
    /\ console = <<>>
    /\ \A p \in GoodPaths : files[p] = <<>>
    /\ m_lstrm_mtx[op[t].l] = NoThread

\* C11 (Spec): close_file is idempotent and ends on the console: when
\* close_file has run, running close() once more on the sink it left would
\* change neither the sink (destination, open flag, stream state) nor any
\* file nor the console, and the sink it left writes to the console.
C11_CloseIdempotentOnConsole ==
  [][\A t \in Threads :
       CloseFileBody(t) =>
         LET once == World(m_lstrm'[op[t].l], files', console')
         IN /\ close(once) = once
            /\ Dest(once.s) = "console"
            /\ ~is_open(once.s)]_vars

\* C12 (SpecLevel): once min_log_level(T) has returned on the only thread
\* that stores and is still that thread's last call, a logging call at
\* severity L started by another thread reads T and goes on to the sink iff
\* L >= T, and when it has returned it has handed one line to the sink in
\* that case and nothing otherwise; the setter and the getter can run
\* whoever holds the sink mutex, and they leave the mutex as it is.
C12_StoreVisibleLockFree ==
  /\ [][/\ \A t \in Threads \ {Setter}, sev \in Severities :
             ( /\ LogGate(t, "a", sev)
               /\ op[Setter].name = "set_level"
               /\ op[Setter].l = "a" ) =>
                 /\ op'[t].lvl = op[Setter].lvl
                 /\ (pc'[t] = "lock") <=> (sev >= op[Setter].lvl)
                 /\ (pc'[t] = "idle") <=> (sev < op[Setter].lvl)
        /\ \A lvl \in log_level :
             SetMinLogLevel(Setter, "a", lvl) =>
               /\ m_min_lvl_atm'["a"] = lvl
               /\ m_lstrm_mtx' = m_lstrm_mtx
               /\ pc'[Setter] = "idle"
        /\ GetMinLogLevel(Setter, "a") =>
             /\ op'[Setter].lvl = m_min_lvl_atm["a"]
             /\ m_lstrm_mtx' = m_lstrm_mtx]_vars
  /\ [](\A t \in Threads :
          /\ Returned(t, "log") =>
               Cardinality(ChunksOf(sunk[op[t].l], <<t, op[t].k>>))
                 = IF op[t].sev >= op[t].lvl THEN 4 ELSE 0
          /\ pc[t] = "idle" =>
               /\ ENABLED GetMinLogLevel(t, "a")
               /\ \A lvl \in log_level : ENABLED SetMinLogLevel(t, "a", lvl))

\* Writer wrote a line under the constructed level, Setter stored Error, and
\* Writer's next call at Warn read Error and wrote nothing.
C12_Witness ==
  /\ op[Setter].name = "set_level"
  /\ op[Setter].lvl = Error
  /\ Returned(Writer, "log")
  /\ op[Writer].k = 2
  /\ op[Writer].sev = Warn
  /\ op[Writer].lvl = Error
  /\ Len(sunk["a"]) = 4
  /\ EndsWithLine(sunk["a"], <<Writer, 1>>)

\* C13 (SpecSelfSwap): a.swap(a) returns in its first step, whoever holds a's
\* mutex: it never goes on to lock anything and it leaves the start times,
\* the thresholds, the sinks, the files, the console and the mutexes as they
\* were; no thread ever holds a mutex while waiting for that same mutex.
C13_SelfSwapIsNoOp ==
  /\ [][\A t \in Threads, l \in Loggers :
          SwapCall(t, l, l) =>
            /\ pc'[t] = "idle"
            /\ m_start_time' = m_start_time
            /\ m_min_lvl_atm' = m_min_lvl_atm
            /\ m_lstrm' = m_lstrm
            /\ m_lstrm_mtx' = m_lstrm_mtx
            /\ files' = files
            /\ console' = console]_vars
  /\ [](\A t \in Threads :
          /\ pc[t] = "swap_lock" => m_lstrm_mtx[op[t].l] # t
          /\ pc[t] = "swap_lock_rhs" => m_lstrm_mtx[op[t].arg] # t)

\* a.swap(a) has returned while the other thread holds a's mutex in the
\* middle of a swap of a and b
C13_Witness ==
  \E t \in Threads, u \in Threads :
    /\ t # u
    /\ Returned(t, "swap")
    /\ op[t].l = "a"
    /\ op[t].arg = "a"
    /\ m_lstrm_mtx["a"] = u
    /\ pc[u] = "swap_strm"

\* the places of history q that hold a prefix
Prefixes(q) == {i \in 1 .. Len(q) : q[i].part = "prefix"}

\* the start time of the logger was exchanged between places i and j of q
SwappedBetween(q, i, j) == \E n \in i .. j : q[n].part = "swap"

\* C14 as claimed (SpecClock): the elapsed times of the lines of a logger
\* never decrease in the order of the lines, whatever operations the logger
\* went through, and each line carries the id of the thread that called.
C14_ElapsedNeverDecreases ==
  \A l \in Loggers :
    LET q == sunk[l]
    IN /\ \A i \in Prefixes(q), j \in Prefixes(q) :
            i < j => q[i].val <= q[j].val
       /\ \A i \in Prefixes(q) : q[i].tid = q[i].id[1]

\* C14 (SpecClock): the elapsed times of the lines of a logger never
\* decrease in the order of the lines as long as no swap exchanged the
\* logger's start time between them, and each line carries the id of the
\* thread that called.
C14_ElapsedNeverDecreasesBetweenSwaps ==
  \A l \in Loggers :
    LET q == sunk[l]
    IN /\ \A i \in Prefixes(q), j \in Prefixes(q) :
            (i < j /\ ~SwappedBetween(q, i, j)) => q[i].val <= q[j].val
       /\ \A i \in Prefixes(q) : q[i].tid = q[i].id[1]

\* both threads have written a line through a, the second one later on
\* the clock, and no swap came between
C14_Witness ==
  LET q == sunk["a"]
  IN /\ Len(q) = 8
     /\ LineAt(q, 1, <<1, 1>>)
     /\ LineAt(q, 5, <<2, 1>>)
     /\ q[1].tid = 1
     /\ q[5].tid = 2
     /\ q[1].val < q[5].val

\* Thread t is at a statement that reads or writes the sink of logger l.
Accessing(t, l) ==
  \/ /\ pc[t] \in {"prefix", "tag", "args", "endl", "open", "close"}
     /\ op[t].l = l
  \/ /\ pc[t] = "swap_strm"
     /\ l \in {op[t].l, op[t].arg}

\* The places that hold a chunk of call id: the console, the files, and a
\* file's put area counted with its file.
Holders(id) ==
  {d \in {"console"} \cup GoodPaths :
     \E i \in 1 .. Len(Content(d)) : Content(d)[i].id = id}
  \cup {m_lstrm[l].fb.file : l \in {r \in Loggers :
          \E i \in 1 .. Len(m_lstrm[r].fb.buf) : m_lstrm[r].fb.buf[i].id = id}}

\* C15 (SpecFile): a thread at a statement that reads or writes a sink owns
\* that logger's mutex, so no two threads are at such statements of one
\* sink; a sink, a file or the console changes only in a step of a thread
\* that owns the mutex of a logger; the chunks of one line never lie in two
\* destinations, and a returned call has left its line whole in one
\* destination or, on a failed sink, nowhere.
C15_SinkAccessUnderMutex ==
  /\ [](/\ \A t \in Threads, l \in Loggers :
             Accessing(t, l) => m_lstrm_mtx[l] = t
        /\ \A t \in Threads, u \in Threads, l \in Loggers :
             (Accessing(t, l) /\ Accessing(u, l)) => t = u
        /\ \A t \in Threads :
             (pc[t] # "idle" \/ op[t].name = "log") =>
               LET id == <<t, op[t].k>>
                   d == Holders(id)
               IN /\ Cardinality(d) <= 1
                  /\ (Returned(t, "log") /\ d # {}) =>
                       \E e \in d :
                         \E i \in 1 .. Len(Content(e)) :
                           LineAt(Content(e), i, id))
  /\ [][\A l \in Loggers :
          (m_lstrm'[l] # m_lstrm[l] \/ files' # files \/ console' # console)
            => \E t \in Threads :
                 /\ pc'[t] # pc[t]
                 /\ \E r \in Loggers : Accessing(t, r) /\ m_lstrm_mtx[r] = t]_vars

\* thread 1 is in the middle of its first line, which goes to file A, while
\* the redirecting thread waits for the mutex with a close_file
C15_Witness ==
  /\ pc[1] = "args"
  /\ op[1].k = 1
  /\ pc[Redirector] = "lock"
  /\ op[Redirector].name = "close_file"
  /\ Dest(m_lstrm["a"]) = "A"
  /\ Holders(<<1, 1>>) = {"A"}
  /\ console = <<>>

\* C16 (SpecLive): under fair scheduling every call that has started
\* returns and a held mutex is released, whatever the state of the sink; a
\* logging call that passed the gate has, when it has returned, handed its
\* whole line to the sink.
C16_CallsTerminate ==
  /\ \A t \in LiveThreads : (pc[t] # "idle") ~> (pc[t] = "idle")
  /\ (m_lstrm_mtx["a"] # NoThread) ~> (m_lstrm_mtx["a"] = NoThread)
  /\ [](\A t \in LiveThreads :
          (Returned(t, "log") /\ op[t].sev >= op[t].lvl) =>
            \E i \in 1 .. Len(sunk["a"]) :
              LineAt(sunk["a"], i, <<t, op[t].k>>))

\* a logging call waits for the mutex of a failed sink while the other
\* thread holds it in the middle of a line
C16_Witness ==
  /\ pc[Setter] = "lock"
  /\ op[Setter].name = "log"
  /\ m_lstrm_mtx["a"] = Redirector
  /\ pc[Redirector] = "args"
  /\ Dest(m_lstrm["a"]) = "failed"

\* C17 (SpecLevel): a logging call whose severity is below the level it
\* loads returns in that same step, whoever holds the mutex: it is never at
\* the lock, and it leaves the mutex, the sinks, the files, the console and
\* what was handed to the sinks as they were; an idle thread can always
\* start a logging call.
C17_BelowThresholdTouchesNothing ==
  /\ [][\A t \in Threads, l \in Loggers, sev \in Severities :
          (LogGate(t, l, sev) /\ sev < m_min_lvl_atm[l]) =>
            /\ pc'[t] = "idle"
            /\ m_lstrm_mtx' = m_lstrm_mtx
            /\ m_lstrm' = m_lstrm
            /\ files' = files
            /\ console' = console
            /\ sunk' = sunk
            /\ m_min_lvl_atm' = m_min_lvl_atm]_vars
  /\ [](\A t \in Threads :
          /\ (pc[t] # "idle" /\ op[t].name = "log") => op[t].sev >= op[t].lvl
          /\ pc[t] = "idle" =>
               \A sev \in Severities : ENABLED LogGate(t, "a", sev))

\* Writer's call at Warn read the level Error and has returned with nothing
\* written while Setter holds the mutex in the middle of a line
C17_Witness ==
  /\ Returned(Writer, "log")
  /\ op[Writer].sev = Warn
  /\ op[Writer].lvl = Error
  /\ m_lstrm_mtx["a"] = Setter
  /\ pc[Setter] = "args"
  /\ ChunksOf(sunk["a"], <<Writer, op[Writer].k>>) = {}

\* The levels the loggers of SpecSwapLevel are constructed with, the effect
\* of a whole swap on the levels and the effect of a store of z into x.
ConstructedLevels == [l \in Loggers |-> IF l = "a" THEN Trace ELSE Error]
LevelsSwapped(m) == [l \in Loggers |-> IF l = "a" THEN m["b"] ELSE m["a"]]
LevelStored(m, x, z) == [m EXCEPT ![x] = z]

\* C18 (SpecSwapLevel): when one a.swap(b) and one min_log_level(z) on
\* logger x have run concurrently and both have returned, the levels of a
\* and b are those of the swap followed by the store or of the store
\* followed by the swap.
C18_SwapLevelsSerializable ==
  ( /\ nops[Swapper] = 1
    /\ nops[Setter] = 1
    /\ Returned(Swapper, "swap")
    /\ Returned(Setter, "set_level") ) =>
      LET x == op[Setter].l
          z == op[Setter].lvl
      IN m_min_lvl_atm \in
           { LevelStored(LevelsSwapped(ConstructedLevels), x, z),
             LevelsSwapped(LevelStored(ConstructedLevels, x, z)) }

\* C19 (Spec): when a swap of two distinct loggers has returned, with
\* nothing else running, each logger has the start time and the level the
\* other one had when the swap was called; when the call before it was the
\* same swap, both loggers again show the start time, level, open flag,
\* stream buffer and stream state they showed before the first of the two.
C19_SwapTwiceRestores ==
  \A t \in Threads :
    (Returned(t, "swap") /\ op[t].l # op[t].arg) =>
      LET l == op[t].l
          r == op[t].arg
          f == op[t]
      IN /\ View(l).start = f.pre[r].start
         /\ View(r).start = f.pre[l].start
         /\ View(l).lvl = f.pre[r].lvl
         /\ View(r).lvl = f.pre[l].lvl
         /\ f.chain = 2 => Views = f.prev

\* a.swap(b) has returned for the second time in a row, a having started
\* on an open file and b on the console, and the first swap had changed
\* what the accessors return
C19_Witness ==
  \E t \in Threads :
    /\ Returned(t, "swap")
    /\ op[t].l = "a"
    /\ op[t].arg = "b"
    /\ op[t].chain = 2
    /\ op[t].prev["a"].open
    /\ ~op[t].prev["b"].open
    /\ op[t].pre # op[t].prev
    /\ op[t].prev["a"].lvl # op[t].prev["b"].lvl
====
